---- MODULE Spec2Model ----
(***************************************************************************)
(* The schedule projector of generate_data.py:                             *)
(* calculate_next_runs_from_schedule(schedule, first_run), and the loop of *)
(* get_cron_jobs that calls it once per job record.                        *)
(*                                                                         *)
(* Time is counted in milliseconds.  A naive datetime is the number of     *)
(* milliseconds of local time since the epoch; a timedelta is a number of  *)
(* milliseconds.  The elements                                             *)
(* of runs are the datetimes handed to isoformat(): isoformat is injective *)
(* and order preserving on naive datetimes, so the list of datetimes       *)
(* stands for the list of strings.                                         *)
(***************************************************************************)
EXTENDS Integers, Sequences, FiniteSets

\* ------------------------------------------------------------------ bounds

\* Job records handled by one run of get_cron_jobs.
MaxJobs == 2

\* Start of the datetime range: stepping below it raises OverflowError
\* (Python: datetime.min, year 1; here the range starts at the epoch, close to
\* the inputs, so that a loop stepping backwards reaches it).
DatetimeMin == 0

\* ------------------------------------------------------- program constants

MaxRuns == 100

HorizonDays == 14

MsPerMinute == 60000

MsPerHour == 60 * MsPerMinute

MsPerDay == 24 * MsPerHour

MsPerWeek == 7 * MsPerDay

\* timedelta(days=14)
Horizon == HorizonDays * MsPerDay

\* ------------------------------------------------------------ text helpers
\* A string is a sequence of one-character strings.

DigitChars == <<"0", "1", "2", "3", "4", "5", "6", "7", "8", "9">>

IsDigit(c) == \E i \in 1..10 : DigitChars[i] = c

DigitVal(c) == (CHOOSE i \in 1..10 : DigitChars[i] = c) - 1

RECURSIVE DigitsVal(_)
DigitsVal(s) ==
    IF s = <<>> THEN 0
    ELSE 10 * DigitsVal(SubSeq(s, 1, Len(s) - 1)) + DigitVal(s[Len(s)])

AllDigits(s) == Len(s) > 0 /\ \A i \in 1..Len(s) : IsDigit(s[i])

\* int(s) of a string without blanks: an optional sign, then digits;
\* anything else is a ValueError (ok = FALSE).
ParseInt(s) ==
    IF Len(s) > 0 /\ s[1] \in {"-", "+"}
    THEN LET body == SubSeq(s, 2, Len(s)) IN
         IF AllDigits(body)
         THEN [ok |-> TRUE,
               val |-> IF s[1] = "-" THEN 0 - DigitsVal(body) ELSE DigitsVal(body)]
         ELSE [ok |-> FALSE, val |-> 0]
    ELSE IF AllDigits(s) THEN [ok |-> TRUE, val |-> DigitsVal(s)]
         ELSE [ok |-> FALSE, val |-> 0]

\* s.startswith(p)
StartsWith(s, p) == Len(s) >= Len(p) /\ SubSeq(s, 1, Len(p)) = p

\* c in s, for a one-character c
Contains(s, c) == \E i \in 1..Len(s) : s[i] = c

\* s.split(): the maximal blank-free pieces of s, in order.
RECURSIVE SplitFrom(_, _, _, _)
SplitFrom(s, i, word, acc) ==
    IF i > Len(s)
    THEN IF word = <<>> THEN acc ELSE Append(acc, word)
    ELSE IF s[i] = " "
         THEN SplitFrom(s, i + 1, <<>>, IF word = <<>> THEN acc ELSE Append(acc, word))
         ELSE SplitFrom(s, i + 1, Append(word, s[i]), acc)

Split(s) == SplitFrom(s, 1, <<>>, <<>>)

\* ------------------------------------------------------------------ inputs

Base == 100 * MsPerMinute

\* Values of datetime.now().
Nows == {Base, Base + 30000}

\* state.nextRunAtMs of a job record: 0 and absent (None) are falsy.
NoAnchor == -1

Anchors ==
    {NoAnchor, 0,
     Base - 90 * MsPerMinute, Base, Base + 100 * MsPerMinute,
     Base + Horizon - MsPerMinute, Base + Horizon, Base + Horizon + 30000}

\* schedule['at']: absent, '', a non-string, a string that is no timestamp,
\* or an ISO timestamp of wall-clock value t followed by the zone suffix tz.
NoAt == [form |-> "absent", t |-> 0, tz |-> <<>>]

ZoneZ == <<"Z">>

ZoneUtc == <<"+", "0", "0", ":", "0", "0">>

ZoneEast == <<"+", "0", "2", ":", "0", "0">>

AtValues ==
    {NoAt,
     [form |-> "empty", t |-> 0, tz |-> <<>>],
     [form |-> "number", t |-> 0, tz |-> <<>>],
     [form |-> "garbage", t |-> 0, tz |-> <<>>]}
    \cup
    [form : {"iso"},
     t : {Base - MsPerHour, Base, Base + MsPerHour, Base + Horizon - 1,
          Base + Horizon, Base + Horizon + 30000, Base + Horizon + MsPerHour},
     tz : {<<>>, ZoneZ, ZoneUtc, ZoneEast}]

\* schedule['everyMs']: absent, null, a string, or an integer.
NoEvery == [ty |-> "absent", v |-> 0]

EveryValues ==
    {NoEvery, [ty |-> "null", v |-> 0], [ty |-> "str", v |-> 0]}
    \cup
    [ty : {"int"},
     v : {0 - MsPerMinute, 0, MsPerMinute, 30 * MsPerMinute, MsPerDay, MsPerWeek}]

Star == <<"*">>

Blank == <<" ">>

MinuteFields ==
    {Star, <<"0">>, <<"*", "/", "1", "5">>, <<"*", "/", "1">>,
     <<"*", "/", "0">>, <<"*", "/", "-", "1">>, <<"*", "/", "x">>}

HourFields == {Star, <<"9">>, <<"9", "-", "1", "7">>, <<"9", ",", "1", "7">>}

\* day-of-month, month, day-of-week
TailFields ==
    {<<"*", " ", "*", " ", "*">>, <<"*", " ", "*", " ", "1">>,
     <<"1", " ", "*", " ", "*">>, <<"*", " ", "6", " ", "1">>}

\* schedule['expr']: absent or '' (both <<>>), fewer than 5 fields, 5 fields,
\* or 6 fields.
ExprValues ==
    {<<>>, <<"0", " ", "9", " ", "*", " ", "*">>,
     <<"0", " ", "9", " ", "*", " ", "*", " ", "*", " ", "2", "0", "2", "6">>}
    \cup
    {m \o Blank \o h \o Blank \o t :
        m \in MinuteFields, h \in HourFields, t \in TailFields}

\* The schedule of a job record: falsy ({} or null), a truthy value that is
\* no dict, or a dict with its kind and the field its kind reads.
Sched(shape, kind, at, every, expr) ==
    [shape |-> shape, kind |-> kind, at |-> at, everyMs |-> every, expr |-> expr]

Schedules ==
    {Sched("empty", "", NoAt, NoEvery, <<>>),
     Sched("nondict", "", NoAt, NoEvery, <<>>),
     Sched("dict", "", NoAt, NoEvery, <<>>)}
    \cup {Sched("dict", "at", a, NoEvery, <<>>) : a \in AtValues}
    \cup {Sched("dict", "every", NoAt, e, <<>>) : e \in EveryValues}
    \cup {Sched("dict", "cron", NoAt, NoEvery, x) : x \in ExprValues}

\* ------------------------------------------- calculate_next_runs_from_schedule

\* at_str.replace('Z', '+00:00').replace('+00:00', ''): the UTC designators
\* are dropped, any other offset stays.
StripUtc(tz) == IF tz \in {ZoneZ, ZoneUtc} THEN <<>> ELSE tz

\* datetime.fromisoformat of the stripped string: the wall-clock value, naive
\* when no offset is left and aware otherwise.
ParseAt(at) == [t |-> at.t, aware |-> StripUtc(at.tz) # <<>>]

\* now <= at_time <= end_date
AtInRange(nw, at_time, end) == nw <= at_time /\ at_time <= end

\* The 'at' branch.  Every exception is swallowed by the bare except: a
\* non-string has no replace(), a string that is no timestamp makes
\* fromisoformat raise, an aware datetime cannot be compared with now.
AtRuns(at, nw, end, fresh) ==
    IF at.form # "iso" THEN fresh
    ELSE LET p == ParseAt(at) IN
         IF ~p.aware /\ AtInRange(nw, p.t, end) THEN Append(fresh, p.t) ELSE fresh

\* every_ms > 0
EveryGuardZeroOk(every_ms) == every_ms >= 0

EveryGuard(every_ms) == every_ms > 0

\* The interval a cron expression is taken to mean, from its first five
\* fields; ok = FALSE when int() raises ValueError.
CronInterval(parts) ==
    LET minute == parts[1]
        hour == parts[2]
        day_of_month == parts[3]
        month == parts[4]
        day_of_week == parts[5]
        mins == ParseInt(SubSeq(minute, 3, Len(minute)))
    IN  IF StartsWith(minute, <<"*", "/">>) /\ hour = Star
        THEN [ok |-> mins.ok, interval |-> mins.val * MsPerMinute]
        ELSE IF StartsWith(minute, <<"*", "/">>) /\ Contains(hour, "-")
        THEN [ok |-> mins.ok, interval |-> mins.val * MsPerMinute]
        ELSE IF hour = Star /\ ~StartsWith(minute, <<"*", "/">>)
        THEN [ok |-> TRUE, interval |-> MsPerHour]
        ELSE IF day_of_month = Star /\ month = Star /\ day_of_week = Star
        THEN [ok |-> TRUE, interval |-> MsPerDay]
        ELSE IF day_of_month = Star /\ month = Star /\ day_of_week # Star
        THEN [ok |-> TRUE, interval |-> MsPerWeek]
        ELSE [ok |-> TRUE, interval |-> MsPerDay]

\* runs = []
FreshRunsLeaked(left) == left

FreshRuns(left) == <<>>

\* while current < end_date and len(runs) < 100
LoopCondOffByOne(cur, end, rs) == cur < end /\ Len(rs) <= MaxRuns

LoopCond(cur, end, rs) == cur < end /\ Len(rs) < MaxRuns

\* if current >= now
EmitCondStrict(cur, nw) == cur > nw

EmitCond(cur, nw) == cur >= nw

VARIABLES
    schedule,    \* job['schedule'] of the job record in hand
    anchor,      \* state.nextRunAtMs of that record (next_run_ms)
    now,         \* datetime.now() read by the projector
    end_date,    \* now + timedelta(days=14)
    interval,    \* the stepping timedelta
    current,     \* the running timestamp of the stepping loop
    runs,        \* the list under construction
    pc,          \* "idle": get_cron_jobs at the head of its for loop;
                 \* "loop": in the stepping loop; "done": the projector
                 \* returned runs; "raised": an exception left the projector;
                 \* "appended": the record's row is in processed; "failed":
                 \* get_cron_jobs fell into its except handler
    exc,         \* the exception raised, "" when none
    processed,   \* number of rows in get_cron_jobs' processed list
    next_runs,   \* nextRuns of the row appended last
    prev         \* <<r>> when this call repeats, with the same schedule,
                 \* anchor and now, the call that returned r; else <<>>

vars ==
    <<schedule, anchor, now, end_date, interval, current, runs, pc, exc,
      processed, next_runs, prev>>

\* The projector from its first line to the first test of a stepping loop, a
\* return or an exception.  left is the list the previous call returned.
Enter(sch, first_run, nw, left) ==
    LET fresh == FreshRuns(left)
        end == nw + Horizon
        Ret(rs) == [pc |-> "done", exc |-> "", runs |-> rs, end_date |-> end,
                    interval |-> 0, current |-> 0]
        Raise(e) == [pc |-> "raised", exc |-> e, runs |-> fresh, end_date |-> end,
                     interval |-> 0, current |-> 0]
        Loop(iv) == [pc |-> "loop", exc |-> "", runs |-> fresh, end_date |-> end,
                     interval |-> iv, current |-> first_run]
    IN  IF sch.shape = "empty" THEN Ret(fresh)
        ELSE IF sch.shape = "nondict" THEN Raise("AttributeError")
        ELSE IF sch.kind = "at" THEN Ret(AtRuns(sch.at, nw, end, fresh))
        ELSE IF sch.kind = "every"
        THEN IF sch.everyMs.ty \in {"null", "str"} THEN Raise("TypeError")
             ELSE LET every_ms == IF sch.everyMs.ty = "absent" THEN 0
                                  ELSE sch.everyMs.v
                  IN  IF EveryGuard(every_ms) THEN Loop(every_ms) ELSE Ret(fresh)
        ELSE IF sch.kind = "cron"
        THEN IF sch.expr = <<>> THEN Ret(fresh)
             ELSE LET parts == Split(sch.expr) IN
                  IF Len(parts) < 5 THEN Ret(fresh)
                  ELSE LET ci == CronInterval(parts) IN
                       IF ci.ok THEN Loop(ci.interval) ELSE Raise("ValueError")
        ELSE Ret(fresh)

\* if next_run_ms
TruthyZeroOk(next_run_ms) == next_run_ms # NoAnchor

Truthy(next_run_ms) == next_run_ms # NoAnchor /\ next_run_ms # 0

\* One pass of get_cron_jobs' for loop up to the projector's call: a record
\* without anchor gets its row at once, with nextRuns = []; otherwise the
\* projector is entered with first_run = fromtimestamp(next_run_ms / 1000).
TakeJob(sch, next_run_ms, nw, again) ==
    /\ schedule' = sch
    /\ anchor' = next_run_ms
    /\ next_runs' = <<>>
    /\ IF Truthy(next_run_ms)
       THEN LET o == Enter(sch, next_run_ms, nw, next_runs) IN
            /\ now' = nw
            /\ end_date' = o.end_date
            /\ interval' = o.interval
            /\ current' = o.current
            /\ runs' = o.runs
            /\ pc' = o.pc
            /\ exc' = o.exc
            /\ prev' = again
            /\ UNCHANGED processed
       ELSE /\ processed' = processed + 1
            /\ pc' = "appended"
            /\ prev' = <<>>
            /\ UNCHANGED <<now, end_date, interval, current, runs, exc>>

\* The next job record, with any schedule and anchor.
NewJob ==
    /\ pc = "idle"
    /\ processed < MaxJobs
    /\ \E sch \in Schedules, a \in Anchors, nw \in Nows :
          TakeJob(sch, a, nw, <<>>)

\* The next job record equals the previous one and the clock has not moved.
SameJob ==
    /\ pc = "appended"
    /\ processed < MaxJobs
    /\ Truthy(anchor)
    /\ TakeJob(schedule, anchor, now, <<next_runs>>)

\* One test of the while condition, and one pass of the body when it holds.
\* current += interval raises OverflowError below the datetime range.
Step ==
    /\ pc = "loop"
    /\ IF LoopCond(current, end_date, runs)
       THEN /\ runs' = IF EmitCond(current, now) THEN Append(runs, current) ELSE runs
            /\ IF current + interval < DatetimeMin
               THEN /\ pc' = "raised"
                    /\ exc' = "OverflowError"
                    /\ UNCHANGED current
               ELSE /\ current' = current + interval
                    /\ UNCHANGED <<pc, exc>>
       ELSE /\ pc' = "done"
            /\ UNCHANGED <<runs, current, exc>>
    /\ UNCHANGED <<schedule, anchor, now, end_date, interval, processed,
                   next_runs, prev>>

\* The projector returned: get_cron_jobs appends the row; the projector's
\* locals are gone.
Finish ==
    /\ pc = "done"
    /\ next_runs' = runs
    /\ processed' = processed + 1
    /\ pc' = "appended"
    /\ runs' = <<>>
    /\ end_date' = 0
    /\ interval' = 0
    /\ current' = 0
    /\ UNCHANGED <<schedule, anchor, now, exc, prev>>

\* The for loop moves on: the record in hand and its row are out of reach.
NextRecord ==
    /\ pc = "appended"
    /\ pc' = "idle"
    /\ schedule' = Sched("empty", "", NoAt, NoEvery, <<>>)
    /\ anchor' = NoAnchor
    /\ now' = Base
    /\ next_runs' = <<>>
    /\ prev' = <<>>
    /\ UNCHANGED <<end_date, interval, current, runs, exc, processed>>

\* The exception reaches get_cron_jobs' except Exception: the rows built so
\* far are dropped and the text fallback takes over.
Abort ==
    /\ pc = "raised"
    /\ pc' = "failed"
    /\ processed' = 0
    /\ next_runs' = <<>>
    /\ runs' = <<>>
    /\ end_date' = 0
    /\ interval' = 0
    /\ current' = 0
    /\ UNCHANGED <<schedule, anchor, now, exc, prev>>

Init ==
    /\ schedule = Sched("empty", "", NoAt, NoEvery, <<>>)
    /\ anchor = NoAnchor
    /\ now = Base
    /\ end_date = 0
    /\ interval = 0
    /\ current = 0
    /\ runs = <<>>
    /\ pc = "idle"
    /\ exc = ""
    /\ processed = 0
    /\ next_runs = <<>>
    /\ prev = <<>>

Next == NewJob \/ SameJob \/ Step \/ Finish \/ NextRecord \/ Abort

Spec == Init /\ [][Next]_vars

\* The interpreter keeps running the call in hand.
FairSpec == Spec /\ WF_vars(Next)

\* ------------------------------------------------------------------ claims

IsDone == pc = "done"

\* The anchor-aligned ticks a + k*d (k >= 0, d > 0) inside [nw, end), in
\* increasing k, cut after the first MaxRuns; in closed form.
Ticks(a, d, nw, end) ==
    LET k0 == IF a >= nw THEN 0 ELSE ((nw - a) + d - 1) \div d
        first == a + k0 * d
        count == IF first >= end THEN 0 ELSE ((end - 1 - first) \div d) + 1
        n == IF count < MaxRuns THEN count ELSE MaxRuns
    IN  [i \in 1..n |-> first + (i - 1) * d]

\* The FixedInterval projection the specification describes: nothing for a
\* non-positive interval.
FixedProjection(a, d, nw) == IF d <= 0 THEN <<>> ELSE Ticks(a, d, nw, nw + Horizon)

\* C1: every timestamp the projector returns lies in [now, now + horizon),
\* for every schedule kind, anchor and now.
C1_WindowContainment ==
    IsDone => \A i \in 1..Len(runs) : now <= runs[i] /\ runs[i] < now + Horizon

\* C2: the list holds at most 100 elements, at every iteration of the
\* stepping loop and when it is returned and reported.
C2_AtMostMaxRuns == Len(runs) <= MaxRuns /\ Len(next_runs) <= MaxRuns

C2_CapReached == IsDone /\ Len(runs) = MaxRuns /\ current < end_date

\* C3: the returned timestamps are in non-decreasing order, whatever the
\* schedule, including cron minute fields '*/N' with N zero or negative.
C3_NonDecreasing ==
    IsDone => \A i \in 1..(Len(runs) - 1) : runs[i] <= runs[i + 1]

\* C4: the stepping loop is always left: the projector terminates on every
\* input, a zero or negative cron interval included.
C4_Terminates == [](pc = "loop" => <>(pc # "loop"))

\* C5: an 'every' schedule whose everyMs is zero, negative or absent yields
\* the empty list, without entering the stepping loop and without raising.
NonPositiveEvery(sch) ==
    /\ sch.shape = "dict"
    /\ sch.kind = "every"
    /\ \/ sch.everyMs.ty = "absent"
       \/ sch.everyMs.ty = "int" /\ sch.everyMs.v <= 0

C5_NonPositiveEveryIsEmpty ==
    NonPositiveEvery(schedule) =>
        /\ pc \notin {"loop", "raised", "failed"}
        /\ runs = <<>>
        /\ next_runs = <<>>

C5_ZeroEveryReturned ==
    /\ IsDone
    /\ NonPositiveEvery(schedule)
    /\ schedule.everyMs.ty = "int"
    /\ now <= anchor
    /\ anchor < end_date

\* C6: a malformed schedule (a dict of unrecognized kind, an 'at' that is no
\* timestamp, a cron minute '*/X' with X no integer, a non-numeric everyMs, a
\* cron expression of fewer than 5 fields) never makes the projector raise,
\* so get_cron_jobs never drops its rows because of it.
Malformed(sch) ==
    \/ sch.shape = "dict" /\ sch.kind = ""
    \/ sch.shape = "dict" /\ sch.kind = "at" /\ sch.at.form \in {"number", "garbage"}
    \/ sch.shape = "dict" /\ sch.kind = "every" /\ sch.everyMs.ty \in {"null", "str"}
    \/ /\ sch.shape = "dict"
       /\ sch.kind = "cron"
       /\ sch.expr # <<>>
       /\ LET parts == Split(sch.expr) IN
          \/ Len(parts) < 5
          \/ /\ StartsWith(parts[1], <<"*", "/">>)
             /\ ~ParseInt(SubSeq(parts[1], 3, Len(parts[1]))).ok

C6_MalformedNeverRaises ==
    Malformed(schedule) => pc \notin {"raised", "failed"}

\* C7: an 'at' schedule with a timestamp 'at' (naive or marked UTC) returns
\* [at] when now <= at < now + horizon, and the empty list otherwise; an 'at'
\* that is empty or no timestamp returns the empty list.
C7_OnceExact ==
    (IsDone /\ schedule.shape = "dict" /\ schedule.kind = "at"
        /\ StripUtc(schedule.at.tz) = <<>>) =>
        runs = IF /\ schedule.at.form = "iso"
                  /\ now <= schedule.at.t
                  /\ schedule.at.t < now + Horizon
               THEN <<schedule.at.t>>
               ELSE <<>>

\* C8: for an 'every' schedule with everyMs = d > 0 and anchor a, the
\* returned list is exactly the first (at most 100) anchor-aligned ticks
\* a + k*d inside [now, now + horizon), in increasing k: catch-up from a past
\* anchor emits no tick before now, skips none inside the window, and the
\* skipped ticks do not count toward the cap.
PositiveEvery(sch) ==
    sch.shape = "dict" /\ sch.kind = "every" /\ sch.everyMs.ty = "int"
        /\ sch.everyMs.v > 0

C8_FixedIntervalExact ==
    (IsDone /\ PositiveEvery(schedule)) =>
        runs = Ticks(anchor, schedule.everyMs.v, now, now + Horizon)

C8_CatchUpToCap ==
    /\ IsDone
    /\ PositiveEvery(schedule)
    /\ anchor < now
    /\ Len(runs) = MaxRuns
    /\ runs[1] > now

\* C9: for a cron schedule of 5 fields the returned list is the FixedInterval
\* projection from the same anchor with the interval of the first matching
\* rule: (1) minute '*/N', hour '*': N minutes; (2) minute '*/N', hour with
\* '-': N minutes; (3) hour '*', minute a fixed value: 1 hour; (4) day of
\* month, month, day of week all '*': 1 day; (5) day of month and month '*',
\* day of week not '*': 1 week; (6) otherwise 1 day.  Stated here for the
\* expressions whose interval by these rules is positive.
RuleInterval(parts) ==
    LET minute == parts[1]
        hour == parts[2]
        stepped == StartsWith(minute, <<"*", "/">>)
        n == ParseInt(SubSeq(minute, 3, Len(minute)))
    IN  IF stepped /\ n.ok /\ (hour = Star \/ Contains(hour, "-"))
        THEN n.val * MsPerMinute
        ELSE IF hour = Star /\ AllDigits(minute) THEN MsPerHour
        ELSE IF parts[3] = Star /\ parts[4] = Star /\ parts[5] = Star THEN MsPerDay
        ELSE IF parts[3] = Star /\ parts[4] = Star THEN MsPerWeek
        ELSE MsPerDay

C9_CronFollowsRules ==
    (IsDone /\ schedule.shape = "dict" /\ schedule.kind = "cron"
        /\ Len(Split(schedule.expr)) = 5
        /\ RuleInterval(Split(schedule.expr)) > 0) =>
        runs = FixedProjection(anchor, RuleInterval(Split(schedule.expr)), now)

\* C10: a call that repeats the previous call, with the same schedule, the
\* same anchor and the same now, returns the same list: nothing of the
\* previous call is left to change it.
C10_Deterministic == (IsDone /\ prev # <<>>) => runs = prev[1]

C10_RepeatedCallReturned == IsDone /\ prev # <<>> /\ Len(runs) > 1

\* C11: a job record whose state.nextRunAtMs is absent, null or 0 gets a row
\* with an empty nextRuns whatever its schedule: the projector is not entered
\* for it (no stepping loop, no return value, no exception), also for an
\* 'at' schedule whose timestamp lies inside the window.
AnchorMissing == anchor = NoAnchor \/ anchor = 0

C11_NoAnchorNoRuns ==
    AnchorMissing =>
        /\ pc \in {"idle", "appended"}
        /\ runs = <<>>
        /\ next_runs = <<>>

C11_OnceInWindowSkipped ==
    /\ pc = "appended"
    /\ anchor = 0
    /\ processed > 0
    /\ schedule.shape = "dict"
    /\ schedule.kind = "at"
    /\ schedule.at.form = "iso"
    /\ StripUtc(schedule.at.tz) = <<>>
    /\ now <= schedule.at.t
    /\ schedule.at.t < now + Horizon
    /\ next_runs = <<>>

====
